---- MODULE Spec2Model ----
(***************************************************************************)
(* Annotation-merge and temporal-localization pipeline of                  *)
(* src/src/ieeg_metadata_validated.py (class IEEGmetadataValidated and the *)
(* __main__ batch loop).                                                   *)
(*                                                                         *)
(* Representation of numbers.  TLC integers are 32 bits wide, while the    *)
(* program works on int64 microsecond offsets and float64 seconds.         *)
(*  - an int64 microsecond value u is the record [sec, usec] with          *)
(*    u = sec * 1000000 + usec and 0 <= usec < 1000000 (sec is the floor   *)
(*    quotient, so negative values are covered);                           *)
(*  - a float seconds value is the exact rational [num, den], den > 0.     *)
(* float64 rounding error is outside the model.                            *)
(***************************************************************************)
EXTENDS Integers, Sequences, FiniteSets, TLC

VARIABLES
    pc,                   \* position of the program
    subject,              \* number of subjects of subjects_to_find begun
    attempted,            \* subjects for which 'Processing ...' was printed
    reported,             \* subjects for which 'Error processing ...' was printed
    raised,               \* subjects whose process_subject_data call raised
    ieeg_data_df,         \* session table (after expansion: one row per day)
    start_times_df,       \* start-time table
    seizure_times_df,     \* raw manual seizure events
    seizure_times_manual, \* normalized manual annotations
    idx,                  \* enumerate(..., start=2) index of the current session
    row,                  \* number of session rows begun in this invocation
    annotations_df,       \* base annotations of the current session
    annotations_df_validated, \* merged annotations of the current session
    metadata_dict,        \* metadata of the current session
    clips_df_validated,   \* clips of the current session
    calls,                \* calls made by the current process_subject_data invocation
    lastWrite             \* arguments of the current session's save_validated_metadata call

vars == <<pc, subject, attempted, reported, raised, ieeg_data_df, start_times_df,
          seizure_times_df, seizure_times_manual, idx, row, annotations_df,
          annotations_df_validated, metadata_dict, clips_df_validated, calls,
          lastWrite>>

(***************************************************************************)
(* Bounds of the model.                                                    *)
(***************************************************************************)
NSubjects == 2      \* length of subjects_to_find
MaxSessions == 2    \* session rows per subject
MaxRows == 2        \* rows of the start-time table
MaxEvents == 2      \* manual seizure events per subject (orchestrator runs)
MaxNormEvents == 3  \* events per call in the Normalizer runs
MaxClips == 2       \* clips per session

(***************************************************************************)
(* Program constants.                                                      *)
(***************************************************************************)
UsecPerSec == 1000000        \* 1e6
SecPerDay == 24 * 3600       \* 24 * 3600
StartIdx == 2                \* enumerate(..., start=2)
NightFrom == 19              \* hour >= 19
NightUntil == 8              \* hour < 8

None == [kind |-> "None"]    \* Python None / an unset local
NaN == [kind |-> "nan"]      \* missing marker of the start-time table

\* all sequences over S of length 0..n
SeqsUpTo(S, n) == UNION {[1..k -> S] : k \in 0..n}

Range(s) == {s[i] : i \in DOMAIN s}

(***************************************************************************)
(* Annotation Normalizer: process_seizure_annotations.                     *)
(***************************************************************************)
Rat(n, d) == [num |-> n, den |-> d]
Usec(s, f) == [sec |-> s, usec |-> f]

\* column * 1e6: the product as an exact rational number of microseconds
Times1e6(x) == [num |-> x.num * UsecPerSec, den |-> x.den]

\* mutant of AstypeInt: rounds to the nearest integer
AstypeIntRound(q) == (2 * q.num + q.den) \div (2 * q.den)

\* .astype(int): the cast drops the fraction, rounding toward zero
AstypeInt(q) ==
    IF q.num >= 0 THEN q.num \div q.den ELSE -((-q.num) \div q.den)

\* one row of the dict of columns built at lines 68-76
AnnotationOf(e) ==
    [layer |-> "manual_validation",
     annotator |-> e.source,
     description |-> "seizure",
     type |-> "seizure",
     start_time_usec |-> AstypeInt(Times1e6(e.start)),
     end_time_usec |-> AstypeInt(Times1e6(e.end))]

\* pd.DataFrame(annotations): a table is its column names and its rows
AnnotationColumns ==
    <<"layer", "annotator", "description", "type", "start_time_usec", "end_time_usec">>

DataFrameOf(events) ==
    [columns |-> AnnotationColumns,
     rows |-> [i \in 1..Len(events) |-> AnnotationOf(events[i])]]

Permutations1(n) == {p \in [1..n -> 1..n] : \A i, j \in 1..n : i # j => p[i] # p[j]}

IsSortedBy(rows) ==
    \A i \in 1..(Len(rows) - 1) : rows[i].start_time_usec <= rows[i + 1].start_time_usec

\* mutant of SortIndexers: the table is left in input order
SortIndexersUnsorted(rows) == {[i \in 1..Len(rows) |-> i]}

\* sort_values(by='start_time_usec') with the default kind='quicksort': the
\* result is ascending, and the order of rows with equal keys is whatever the
\* (not stable) sort of the numpy build produces.  A result is given by its
\* argsort indexer p: output row i is input row p[i].
SortIndexers(rows) ==
    {p \in Permutations1(Len(rows)) : IsSortedBy([i \in 1..Len(rows) |-> rows[p[i]]])}

Take(rows, p) == [i \in 1..Len(rows) |-> rows[p[i]]]

\* the possible results of process_seizure_annotations
process_seizure_annotations(events) ==
    LET df == DataFrameOf(events)
    IN  {[columns |-> df.columns, rows |-> Take(df.rows, p)] :
            p \in SortIndexers(df.rows)}

(***************************************************************************)
(* Temporal Localizer: timestamp_clips.                                    *)
(***************************************************************************)
Timestamp(d, s) == [kind |-> "ts", day |-> d, sod |-> s]

\* a cell of the start-time table holding a timestamp string
Cell(d, hh, mm, ss) == [kind |-> "str", date |-> d, hh |-> hh, mm |-> mm, ss |-> ss]

\* pd.to_datetime: None stays None, a timestamp string is parsed
to_datetime(v) ==
    IF v = None THEN None ELSE Timestamp(v.date, v.hh * 3600 + v.mm * 60 + v.ss)

\* mutant of DaysElapsed: days are rounded up instead of down
DaysElapsedCeil(u) == (u.sec + SecPerDay - 1) \div SecPerDay

\* t // (24 * 3600) for t = u / 1e6, then int(): floor of the quotient
DaysElapsed(u) == u.sec \div SecPerDay

\* int(t) for t = u / 1e6: truncation toward zero
IntOfSeconds(u) == IF u.sec < 0 /\ u.usec > 0 THEN u.sec + 1 ELSE u.sec

\* actual_start_time + pd.Timedelta(seconds=n)
AddSeconds(ts, n) ==
    Timestamp(ts.day + ((ts.sod + n) \div SecPerDay), (ts.sod + n) % SecPerDay)

Hour(ts) == ts.sod \div 3600
Minute(ts) == (ts.sod % 3600) \div 60
Second(ts) == ts.sod % 60

\* a %H, %M or %S field: two decimal digits, zero-padded
Pad2(n) == IF n < 10 THEN "0" \o ToString(n) ELSE ToString(n)

\* strftime('%H:%M:%S')
Strftime(ts) == Pad2(Hour(ts)) \o ":" \o Pad2(Minute(ts)) \o ":" \o Pad2(Second(ts))

\* f"Day {days_elapsed + 1} {current_time.strftime('%H:%M:%S')}"
DayStr(ts, u) ==
    "Day " \o ToString(DaysElapsed(u) + 1) \o " " \o Strftime(AddSeconds(ts, IntOfSeconds(u)))

\* mutant of IsNight: 08:00 to 08:59 counted as night
IsNightInclusive(ts, u) ==
    LET hour == Hour(AddSeconds(ts, IntOfSeconds(u)))
    IN  hour >= NightFrom \/ hour <= NightUntil

\* hour >= 19 or hour < 8
IsNight(ts, u) ==
    LET hour == Hour(AddSeconds(ts, IntOfSeconds(u)))
    IN  hour >= NightFrom \/ hour < NightUntil

\* a clip table: its row index, the start_time_usec column and, once
\* localized, the is_night column
ClipsDf(us) ==
    [index |-> [i \in 1..Len(us) |-> ToString(i - 1)],
     start_time_usec |-> us,
     is_night |-> None]

\* timestamp_clips.  With actual_start_time None, to_datetime gives None and
\* the first clip's None + Timedelta / strftime raises; with no clip the loop
\* body never runs and the call returns the (empty) relabelled table.
timestamp_clips(clips_df, md) ==
    LET actual_start_time == to_datetime(md["actual_start_time"])
        us == clips_df.start_time_usec
    IN  IF actual_start_time = None /\ Len(us) > 0
        THEN [raised |-> TRUE, df |-> clips_df]
        ELSE [raised |-> FALSE,
              df |-> [index |-> [i \in 1..Len(us) |-> DayStr(actual_start_time, us[i])],
                      start_time_usec |-> us,
                      is_night |-> [i \in 1..Len(us) |-> IsNight(actual_start_time, us[i])]]]

(***************************************************************************)
(* Inputs supplied by the external collaborators.                          *)
(***************************************************************************)
\* raw event tables seen by the orchestrator runs: 0..MaxEvents events,
\* alternately A and the earlier B, all before the base annotations
OrchEventAt(k) ==
    IF k % 2 = 1
    THEN [source |-> "A", start |-> Rat(3, 2), end |-> Rat(9, 4)]
    ELSE [source |-> "B", start |-> Rat(0, 1), end |-> Rat(1, 1)]

OrchEventTables == {[i \in 1..k |-> OrchEventAt(i)] : k \in 0..MaxEvents}

\* base annotation tables returned by save_metadata (rows only)
BaseAnnotation(s, e) ==
    [layer |-> "base", annotator |-> "portal", description |-> "note", type |-> "note",
     start_time_usec |-> s, end_time_usec |-> e]

BaseAnnotationTables ==
    {<<>>, <<BaseAnnotation(5000000, 6000000), BaseAnnotation(2000000, 3000000)>>}

\* start_time_usec columns returned by _ieeg_clips in the orchestrator runs
OrchClipOffsets == {Usec(9 * 3600, 0)}

T1 == Cell(1, 10, 0, 0)
Hdr == [kind |-> "hdr"]

\* start-time tables: no row at all, or 1..MaxRows rows of equal width whose
\* first two columns are not start times; a table may be too narrow for the
\* last session
StartWidths == {StartIdx + MaxSessions - 1, StartIdx + MaxSessions}

StartRows(w) ==
    {r \in [1..w -> {Hdr, NaN, T1}] :
        \A c \in 1..w : (r[c] = Hdr) <=> (c <= StartIdx)}

\* a row below the first one: never read by the program; it holds the
\* opposite of the first row in every start-time column
Flip(r) ==
    [c \in DOMAIN r |-> IF r[c] = NaN THEN T1 ELSE IF r[c] = T1 THEN NaN ELSE r[c]]

StartTables ==
    {<<>>} \cup UNION {{[i \in 1..n |-> IF i = 1 THEN r ELSE Flip(r)] :
                          r \in StartRows(w), n \in 1..MaxRows} : w \in StartWidths}

\* DataFrame.empty: some axis has length 0
Empty(df) == Len(df) = 0 \/ Len(df[1]) = 0

\* number of columns of a non-empty table
NCols(df) == Len(df[1])

\* mutant of IlocFirst: reads the last row
IlocLast(df, i) == df[Len(df)][i + 1]

\* df.iloc[:, i].values[0]: column i (0-based), first row
IlocFirst(df, i) == df[1][i + 1]

\* pd.isna
IsNa(v) == v = NaN

DatasetName(i) == "D" \o ToString(i)

\* expand_ieeg_days_rows: one row per recording day
expand_ieeg_days_rows(df) ==
    [i \in 1..df.days |-> [record_id |-> df.record_id, ieegportalsubjno |-> DatasetName(i)]]

SetItem(md, k, v) == [x \in DOMAIN md \cup {k} |-> IF x = k THEN v ELSE md[x]]

NoTable == <<>>
NoFrame == [columns |-> <<>>, rows |-> <<>>]
NoDict == [x \in {} |-> None]
NoClips == ClipsDf(<<>>)

Call(f, s) == [fn |-> f, session |-> s]

(***************************************************************************)
(* The program: the __main__ batch loop, process_subject_data and          *)
(* _process_single_session, one action per statement that calls out.       *)
(***************************************************************************)
Init ==
    /\ pc = "main"
    /\ subject = 0
    /\ attempted = <<>>
    /\ reported = <<>>
    /\ raised = {}
    /\ ieeg_data_df = NoTable
    /\ start_times_df = NoTable
    /\ seizure_times_df = <<>>
    /\ seizure_times_manual = NoFrame
    /\ idx = 0
    /\ row = 0
    /\ annotations_df = <<>>
    /\ annotations_df_validated = <<>>
    /\ metadata_dict = NoDict
    /\ clips_df_validated = NoClips
    /\ calls = <<>>
    /\ lastWrite = None

batch == <<subject, attempted, reported>>
fetched == <<ieeg_data_df, start_times_df, seizure_times_df, seizure_times_manual>>
session == <<annotations_df, annotations_df_validated, metadata_dict, clips_df_validated>>

\* an exception leaves process_subject_data: control goes to the except clause
Raise ==
    /\ pc' = "except"
    /\ raised' = raised \cup {subject}

\* mutant of AfterExcept: the first failure ends the batch
AfterExceptAbort == "exit"

\* where the except clause of the batch loop continues
AfterExcept == "main"

\* lines 193-196: the next subject of subjects_to_find
MainLoop ==
    /\ pc = "main"
    /\ IF subject < NSubjects
       THEN /\ subject' = subject + 1
            /\ attempted' = Append(attempted, subject + 1)
            /\ pc' = "get_redcap_data"
       ELSE /\ pc' = "exit"
            /\ UNCHANGED <<subject, attempted>>
    /\ ieeg_data_df' = NoTable
    /\ start_times_df' = NoTable
    /\ seizure_times_df' = <<>>
    /\ seizure_times_manual' = NoFrame
    /\ idx' = 0
    /\ row' = 0
    /\ annotations_df' = <<>>
    /\ annotations_df_validated' = <<>>
    /\ metadata_dict' = NoDict
    /\ clips_df_validated' = NoClips
    /\ calls' = <<>>
    /\ lastWrite' = None
    /\ UNCHANGED <<reported, raised>>

\* lines 197-198: the failure is printed and the loop goes on
Except ==
    /\ pc = "except"
    /\ reported' = Append(reported, subject)
    /\ pc' = AfterExcept
    /\ UNCHANGED <<subject, attempted, raised, fetched, idx, row, session, calls, lastWrite>>

\* line 33
GetRedcapData ==
    /\ pc = "get_redcap_data"
    /\ calls' = Append(calls, Call("get_redcap_data", 0))
    /\ \/ Raise /\ UNCHANGED ieeg_data_df
       \/ /\ \E n \in 0..MaxSessions :
                ieeg_data_df' = [record_id |-> subject, days |-> n]
          /\ pc' = "expand_ieeg_days_rows"
          /\ UNCHANGED raised
    /\ UNCHANGED <<batch, start_times_df, seizure_times_df, seizure_times_manual,
                   idx, row, session, lastWrite>>

\* line 34
ExpandIeegDaysRows ==
    /\ pc = "expand_ieeg_days_rows"
    /\ calls' = Append(calls, Call("expand_ieeg_days_rows", 0))
    /\ \/ Raise /\ UNCHANGED ieeg_data_df
       \/ /\ ieeg_data_df' = expand_ieeg_days_rows(ieeg_data_df)
          /\ pc' = "get_actual_start_times"
          /\ UNCHANGED raised
    /\ UNCHANGED <<batch, start_times_df, seizure_times_df, seizure_times_manual,
                   idx, row, session, lastWrite>>

\* line 36
GetActualStartTimes ==
    /\ pc = "get_actual_start_times"
    /\ calls' = Append(calls, Call("get_actual_start_times", 0))
    /\ \/ Raise /\ UNCHANGED start_times_df
       \/ /\ start_times_df' \in StartTables
          /\ pc' = "get_seizure_times"
          /\ UNCHANGED raised
    /\ UNCHANGED <<batch, ieeg_data_df, seizure_times_df, seizure_times_manual,
                   idx, row, session, lastWrite>>

\* line 37
GetSeizureTimes ==
    /\ pc = "get_seizure_times"
    /\ calls' = Append(calls, Call("get_seizure_times", 0))
    /\ \/ Raise /\ UNCHANGED seizure_times_df
       \/ /\ seizure_times_df' \in OrchEventTables
          /\ pc' = "process_seizure_annotations"
          /\ UNCHANGED raised
    /\ UNCHANGED <<batch, ieeg_data_df, start_times_df, seizure_times_manual,
                   idx, row, session, lastWrite>>

\* line 38
ProcessSeizureAnnotations ==
    /\ pc = "process_seizure_annotations"
    /\ calls' = Append(calls, Call("process_seizure_annotations", 0))
    /\ seizure_times_manual' \in process_seizure_annotations(seizure_times_df)
    /\ pc' = "for"
    /\ UNCHANGED <<batch, raised, ieeg_data_df, start_times_df, seizure_times_df,
                   idx, row, session, lastWrite>>

\* line 41: the next (idx, row) of enumerate(iterrows(), start=2), or the end
\* of process_subject_data
ForSessions ==
    /\ pc = "for"
    /\ IF row < Len(ieeg_data_df)
       THEN /\ row' = row + 1
            /\ idx' = (IF row = 0 THEN StartIdx ELSE idx + 1)
            /\ pc' = "save_metadata"
       ELSE /\ pc' = "main"
            /\ UNCHANGED <<row, idx>>
    \* the locals of the previous _process_single_session call are gone
    /\ annotations_df' = <<>>
    /\ annotations_df_validated' = <<>>
    /\ metadata_dict' = NoDict
    /\ clips_df_validated' = NoClips
    /\ lastWrite' = None
    /\ UNCHANGED <<batch, raised, fetched, calls>>

\* lines 98-102
SaveMetadata ==
    /\ pc = "save_metadata"
    /\ calls' = Append(calls, Call("save_metadata", row))
    /\ \/ Raise /\ UNCHANGED <<annotations_df, metadata_dict>>
       \/ /\ annotations_df' \in BaseAnnotationTables
          /\ metadata_dict' =
                [k \in {"dataset_name"} |->
                    [kind |-> "name", name |-> ieeg_data_df[row].ieegportalsubjno]]
          /\ pc' = "concat"
          /\ UNCHANGED raised
    /\ UNCHANGED <<batch, fetched, idx, row, annotations_df_validated,
                   clips_df_validated, lastWrite>>

\* mutant of Concat: the manual annotations come first
ConcatManualFirst(a, b) == b \o a

\* pd.concat([annotations_df, seizure_times_manual], ignore_index=True)
Concat(a, b) == a \o b

\* mutant of AfterMerge: the clip derivation is skipped
AfterMergeSkipClips == "add_timestamp"

\* the statement after the merge: the clip derivation of line 111
AfterMerge == "ieeg_clips"

\* lines 105-108
MergeAnnotations ==
    /\ pc = "concat"
    /\ annotations_df_validated' = Concat(annotations_df, seizure_times_manual.rows)
    /\ calls' = Append(calls, Call("concat", row))
    /\ pc' = AfterMerge
    /\ UNCHANGED <<batch, raised, fetched, idx, row, annotations_df, metadata_dict,
                   clips_df_validated, lastWrite>>

\* line 111
IeegClips ==
    /\ pc = "ieeg_clips"
    /\ calls' = Append(calls, Call("_ieeg_clips", row))
    /\ \/ Raise /\ UNCHANGED clips_df_validated
       \/ /\ \E us \in SeqsUpTo(OrchClipOffsets, MaxClips) :
                clips_df_validated' = ClipsDf(us)
          /\ pc' = "add_timestamp"
          /\ UNCHANGED raised
    /\ UNCHANGED <<batch, fetched, idx, row, annotations_df, annotations_df_validated,
                   metadata_dict, lastWrite>>

\* line 116
StartTimeValue(df, i) == IF ~IsNa(IlocFirst(df, i)) THEN IlocFirst(df, i) ELSE None

\* lines 113-118
AddTimestamp ==
    /\ pc = "add_timestamp"
    /\ IF Empty(start_times_df)
       THEN /\ pc' = "save_validated_metadata"
            /\ UNCHANGED <<raised, metadata_dict, clips_df_validated, calls>>
       ELSE IF idx >= NCols(start_times_df)
       THEN \* iloc[:, idx]: IndexError
            /\ Raise
            /\ UNCHANGED <<metadata_dict, clips_df_validated, calls>>
       ELSE LET md == SetItem(metadata_dict, "actual_start_time",
                              StartTimeValue(start_times_df, idx))
                r == timestamp_clips(clips_df_validated, md)
            IN  /\ metadata_dict' = md
                /\ calls' = Append(calls, Call("timestamp_clips", row))
                /\ IF r.raised
                   THEN Raise /\ UNCHANGED clips_df_validated
                   ELSE /\ clips_df_validated' = r.df
                        /\ pc' = "save_validated_metadata"
                        /\ UNCHANGED raised
    /\ UNCHANGED <<batch, fetched, idx, row, annotations_df, annotations_df_validated,
                   lastWrite>>

\* lines 121-127
SaveValidatedMetadata ==
    /\ pc = "save_validated_metadata"
    /\ calls' = Append(calls, Call("save_validated_metadata", row))
    /\ \/ Raise /\ UNCHANGED lastWrite
       \/ /\ lastWrite' =
                [kind |-> "write",
                 session |-> row,
                 record_id |-> ieeg_data_df[row].record_id,
                 dataset_name |-> ieeg_data_df[row].ieegportalsubjno,
                 annotations_df_validated |-> annotations_df_validated,
                 clips_df_validated |-> clips_df_validated,
                 metadata_dict |-> metadata_dict]
          /\ pc' = "for"
          /\ UNCHANGED raised
    /\ UNCHANGED <<batch, fetched, idx, row, session>>

Next ==
    \/ MainLoop
    \/ Except
    \/ GetRedcapData
    \/ ExpandIeegDaysRows
    \/ GetActualStartTimes
    \/ GetSeizureTimes
    \/ ProcessSeizureAnnotations
    \/ ForSessions
    \/ SaveMetadata
    \/ MergeAnnotations
    \/ IeegClips
    \/ AddTimestamp
    \/ SaveValidatedMetadata

Spec == Init /\ [][Next]_vars

(***************************************************************************)
(* The Normalizer alone: one call on any input of up to MaxNormEvents      *)
(* events.                                                                 *)
(***************************************************************************)
NormEvents ==
    {[source |-> "A", start |-> Rat(3, 2), end |-> Rat(9, 4)],
     [source |-> "B", start |-> Rat(3, 2), end |-> Rat(1, 1)],
     [source |-> "A", start |-> Rat(-3, 2000000), end |-> Rat(-1, 2000000)],
     [source |-> "B", start |-> Rat(0, 1), end |-> Rat(9, 4)],
     [source |-> "A", start |-> Rat(1, 2000000), end |-> Rat(3, 2)],
     [source |-> "B", start |-> Rat(-1, 1), end |-> Rat(0, 1)]}

InitNormalize ==
    /\ pc = "normalize_call"
    /\ subject = 0
    /\ attempted = <<>>
    /\ reported = <<>>
    /\ raised = {}
    /\ ieeg_data_df = NoTable
    /\ start_times_df = NoTable
    /\ seizure_times_df \in SeqsUpTo(NormEvents, MaxNormEvents)
    /\ seizure_times_manual = NoFrame
    /\ idx = 0
    /\ row = 0
    /\ annotations_df = <<>>
    /\ annotations_df_validated = <<>>
    /\ metadata_dict = NoDict
    /\ clips_df_validated = NoClips
    /\ calls = <<>>
    /\ lastWrite = None

NormalizeCall ==
    /\ pc = "normalize_call"
    /\ seizure_times_manual' \in process_seizure_annotations(seizure_times_df)
    /\ pc' = "normalize_done"
    /\ UNCHANGED <<batch, raised, ieeg_data_df, start_times_df, seizure_times_df,
                   idx, row, session, calls, lastWrite>>

NextNormalize == NormalizeCall

SpecNormalize == InitNormalize /\ [][NextNormalize]_vars

(***************************************************************************)
(* The Localizer alone: one call on any clip table of up to MaxClips clips *)
(* and any valid start time.                                               *)
(***************************************************************************)
ClipOffsets ==
    {Usec(0, 0), Usec(0, 999999), Usec(1, 0), Usec(8 * 3600, 0), Usec(9 * 3600, 0),
     Usec(86399, 999999), Usec(86400, 0), Usec(90000, 0), Usec(-1, 500000)}

StartCells ==
    {Cell(1, 10, 0, 0), Cell(1, 0, 0, 0), Cell(1, 18, 59, 59), Cell(1, 7, 59, 59),
     Cell(1, 23, 59, 59), Cell(1, 9, 5, 7)}

InitLocalize ==
    /\ pc = "localize_call"
    /\ subject = 0
    /\ attempted = <<>>
    /\ reported = <<>>
    /\ raised = {}
    /\ ieeg_data_df = NoTable
    /\ start_times_df = NoTable
    /\ seizure_times_df = <<>>
    /\ seizure_times_manual = NoFrame
    /\ idx = 0
    /\ row = 0
    /\ annotations_df = <<>>
    /\ annotations_df_validated = <<>>
    /\ \E c \in StartCells : metadata_dict = SetItem(NoDict, "actual_start_time", c)
    /\ \E us \in SeqsUpTo(ClipOffsets, MaxClips) : clips_df_validated = ClipsDf(us)
    /\ calls = <<>>
    /\ lastWrite = None

LocalizeCall ==
    /\ pc = "localize_call"
    /\ LET r == timestamp_clips(clips_df_validated, metadata_dict)
       IN  IF r.raised
           THEN pc' = "localize_raised" /\ UNCHANGED clips_df_validated
           ELSE pc' = "localize_done" /\ clips_df_validated' = r.df
    /\ UNCHANGED <<batch, raised, fetched, idx, row, annotations_df,
                   annotations_df_validated, metadata_dict, calls, lastWrite>>

NextLocalize == LocalizeCall

SpecLocalize == InitLocalize /\ [][NextLocalize]_vars

(***************************************************************************)
(* Properties.                                                             *)
(***************************************************************************)
Count(seq, x) == Cardinality({i \in DOMAIN seq : seq[i] = x})

Called(f, j) == Call(f, j) \in Range(calls)

Digit(n) ==
    CASE n = 0 -> "0" [] n = 1 -> "1" [] n = 2 -> "2" [] n = 3 -> "3" [] n = 4 -> "4"
      [] n = 5 -> "5" [] n = 6 -> "6" [] n = 7 -> "7" [] n = 8 -> "8" [] n = 9 -> "9"

TwoDigits(n) == Digit(n \div 10) \o Digit(n % 10)

RECURSIVE Decimal(_)
Decimal(n) == IF n < 10 THEN Digit(n) ELSE Decimal(n \div 10) \o Digit(n % 10)

\* wall-clock second of the day of start-time cell c, w whole seconds later
WallClock(c, w) == (c.hh * 3600 + c.mm * 60 + c.ss + w) % 86400

\* the label the specification gives the clip at offset u (u >= 0) from c
ExpectedLabel(c, u) ==
    LET w == WallClock(c, u.sec)
    IN  "Day " \o Decimal((u.sec \div 86400) + 1) \o " " \o TwoDigits(w \div 3600)
            \o ":" \o TwoDigits((w \div 60) % 60) \o ":" \o TwoDigits(w % 60)

\* the start-time cell of the current session is missing: the table is empty
\* or its first row holds the missing marker at the session's index
StartMissing ==
    \/ Empty(start_times_df)
    \/ idx < NCols(start_times_df) /\ IsNa(IlocFirst(start_times_df, idx))

StartDefined ==
    /\ ~Empty(start_times_df)
    /\ idx < NCols(start_times_df)
    /\ ~IsNa(IlocFirst(start_times_df, idx))

InSession ==
    pc \in {"concat", "ieeg_clips", "add_timestamp", "save_validated_metadata"}
        \/ (pc \in {"for", "except"} /\ row >= 1 /\ Called("_ieeg_clips", row))

\* C1: in a session whose start time is missing (empty table, or missing
\* value at the session's index) timestamp_clips is not called,
\* metadata_dict gets no actual_start_time key and the clips reach the Writer
\* un-localized (the session does not raise in the localization step); with a
\* defined value the written metadata carry it and the written clips are
\* localized.
C1_MissingStartSkipsLocalizer ==
    /\ (InSession /\ StartMissing) =>
          /\ ~Called("timestamp_clips", row)
          /\ "actual_start_time" \notin DOMAIN metadata_dict
          /\ (lastWrite # None => lastWrite.clips_df_validated.is_night = None)
    /\ (InSession /\ StartDefined /\ lastWrite # None) =>
          /\ Called("timestamp_clips", row)
          /\ "actual_start_time" \in DOMAIN lastWrite.metadata_dict

\* C2: subjects are attempted in order, one after the other, whatever raised
\* before; each subject whose processing raised is reported exactly once
\* (once its except clause has run), no other subject is reported, and the
\* batch ends only after all NSubjects subjects were attempted.
C2_BatchIsolation ==
    /\ attempted = [i \in 1..subject |-> i]
    /\ \A k \in 1..NSubjects :
          Count(reported, k) =
              (IF k \in raised /\ ~(k = subject /\ pc = "except") THEN 1 ELSE 0)
    /\ pc = "exit" => subject = NSubjects

C2_Witness ==
    /\ pc = "exit"
    /\ raised = {1}
    /\ reported = <<1>>
    /\ attempted = [i \in 1..NSubjects |-> i]

\* C3: timestamp_clips keeps the number and the order of the clips, and the
\* clip at position i with offset u >= 0 gets the label "Day D HH:MM:SS",
\* D = (u div 86400000000) + 1, HH:MM:SS the zero-padded wall-clock time of
\* the start time plus (u div 1000000) seconds; 10:00:00 with u = 0 gives
\* "Day 1 10:00:00", midnight with 90000 s gives "Day 2 01:00:00".
C3_Labels ==
    [][pc = "localize_call" =>
        LET c == metadata_dict["actual_start_time"]
            us == clips_df_validated.start_time_usec
            out == clips_df_validated'
        IN  /\ pc' = "localize_done"
            /\ out.start_time_usec = us
            /\ Len(out.index) = Len(us)
            /\ \A i \in 1..Len(us) :
                  us[i].sec >= 0 =>
                     /\ out.index[i] = ExpectedLabel(c, us[i])
                     /\ (c = Cell(1, 10, 0, 0) /\ us[i] = Usec(0, 0))
                            => out.index[i] = "Day 1 10:00:00"
                     /\ (c = Cell(1, 0, 0, 0) /\ us[i] = Usec(90000, 0))
                            => out.index[i] = "Day 2 01:00:00"]_vars

C3_Witness ==
    /\ pc = "localize_done"
    /\ metadata_dict["actual_start_time"] = Cell(1, 0, 0, 0)
    /\ clips_df_validated.start_time_usec = <<Usec(90000, 0), Usec(0, 999999)>>
    /\ clips_df_validated.index = <<"Day 2 01:00:00", "Day 1 00:00:00">>

\* C4: is_night of a clip with offset u >= 0 is true exactly when the hour h
\* of the start time plus (u div 1000000) seconds, wrapped at 24 hours, is
\* >= 19 or < 8: 18:59:59 and 08:00:00 are day, 19:00:00 and 07:59:59 night.
C4_NightWindow ==
    pc = "localize_done" =>
        LET c == metadata_dict["actual_start_time"]
            us == clips_df_validated.start_time_usec
            night == clips_df_validated.is_night
        IN  \A i \in 1..Len(us) :
               us[i].sec >= 0 =>
                  LET w == WallClock(c, us[i].sec)
                      h == w \div 3600
                  IN  /\ night[i] = (h >= 19 \/ h < 8)
                      /\ w = 18 * 3600 + 59 * 60 + 59 => night[i] = FALSE
                      /\ w = 8 * 3600 => night[i] = FALSE
                      /\ w = 19 * 3600 => night[i] = TRUE
                      /\ w = 7 * 3600 + 59 * 60 + 59 => night[i] = TRUE

C4_Witness ==
    /\ pc = "localize_done"
    /\ metadata_dict["actual_start_time"] = Cell(1, 18, 59, 59)
    /\ clips_df_validated.start_time_usec = <<Usec(0, 999999), Usec(1, 0)>>
    /\ clips_df_validated.is_night = <<FALSE, TRUE>>

\* C5: the annotation table given to clip derivation and to the Writer is the
\* session's base annotations in their order followed by the normalized
\* manual annotations in the Normalizer's order: len(base) + len(manual)
\* rows, every manual row after every base row whatever its start time.
MergedAsClaimed(merged) ==
    LET base == annotations_df
        manual == seizure_times_manual.rows
    IN  /\ Len(merged) = Len(base) + Len(manual)
        /\ \A i \in 1..Len(base) : merged[i] = base[i]
        /\ \A j \in 1..Len(manual) : merged[Len(base) + j] = manual[j]

C5_MergeIsAppend ==
    /\ pc \in {"ieeg_clips", "add_timestamp", "save_validated_metadata"}
          => MergedAsClaimed(annotations_df_validated)
    /\ lastWrite # None => MergedAsClaimed(lastWrite.annotations_df_validated)

C5_Witness ==
    /\ lastWrite # None
    /\ Len(annotations_df) = 2
    /\ Len(seizure_times_manual.rows) = 2
    /\ lastWrite.annotations_df_validated[3].layer = "manual_validation"
    /\ lastWrite.annotations_df_validated[3].start_time_usec
          < lastWrite.annotations_df_validated[1].start_time_usec

\* floor and truncation of the rational q, stated by their defining bounds
IsFloorOf(n, q) == n * q.den <= q.num /\ q.num < (n + 1) * q.den

IsTruncOf(n, q) ==
    IF q.num >= 0
    THEN n * q.den <= q.num /\ q.num < (n + 1) * q.den
    ELSE (n - 1) * q.den < q.num /\ q.num <= n * q.den

\* the integer the bounds IsIntOf define for q: the floor or the floor plus one
SpecInt(IsIntOf(_, _), q) ==
    CHOOSE n \in {q.num \div q.den, (q.num \div q.den) + 1} : IsIntOf(n, q)

\* the annotation the claim gives event e
SpecAnnotation(IsIntOf(_, _), e) ==
    [layer |-> "manual_validation", annotator |-> e.source,
     description |-> "seizure", type |-> "seizure",
     start_time_usec |->
        SpecInt(IsIntOf, [num |-> e.start.num * 1000000, den |-> e.start.den]),
     end_time_usec |->
        SpecInt(IsIntOf, [num |-> e.end.num * 1000000, den |-> e.end.den])]

SpecAnnotations(IsIntOf(_, _), events) ==
    [k \in 1..Len(events) |-> SpecAnnotation(IsIntOf, events[k])]

\* the output holds, for every event, its annotation, once per occurrence of
\* the event, and nothing else
EachEventMapped(IsIntOf(_, _)) ==
    pc = "normalize_done" =>
        LET out == seizure_times_manual.rows
            want == SpecAnnotations(IsIntOf, seizure_times_df)
        IN  /\ Len(out) = Len(want)
            /\ \A a \in Range(out) \cup Range(want) : Count(out, a) = Count(want, a)

\* C6 as stated: every event yields exactly one annotation with the fixed
\* tags, annotator = source and both times equal to floor(seconds * 1000000),
\* negative and sub-microsecond values included.
C6_FloorConversion == EachEventMapped(IsFloorOf)

\* C6 amended: the times are seconds * 1000000 truncated toward zero.
C6_TruncConversion ==
    /\ EachEventMapped(IsTruncOf)
    /\ pc = "normalize_done" =>
          LET e == [source |-> "A", start |-> Rat(3, 2), end |-> Rat(9, 4)]
              a == [layer |-> "manual_validation", annotator |-> "A",
                    description |-> "seizure", type |-> "seizure",
                    start_time_usec |-> 1500000, end_time_usec |-> 2250000]
          IN  Count(seizure_times_manual.rows, a) = Count(seizure_times_df, e)

C6_Witness ==
    /\ pc = "normalize_done"
    /\ seizure_times_df =
          <<[source |-> "A", start |-> Rat(-3, 2000000), end |-> Rat(-1, 2000000)],
            [source |-> "B", start |-> Rat(3, 2), end |-> Rat(1, 1)]>>
    /\ seizure_times_manual.rows[1].start_time_usec = -1
    /\ seizure_times_manual.rows[1].end_time_usec = 0
    /\ seizure_times_manual.rows[2].start_time_usec = 1500000
    /\ seizure_times_manual.rows[2].end_time_usec = 1000000

\* C7: the output of the Normalizer has as many rows as the input has events,
\* holds each mapped annotation as often as the input gives it, is
\* non-decreasing by start_time_usec, and an empty input gives an empty table
\* with the six canonical columns.
C7_SortedPermutation ==
    pc = "normalize_done" =>
        LET out == seizure_times_manual
            want == SpecAnnotations(IsTruncOf, seizure_times_df)
        IN  /\ Len(out.rows) = Len(seizure_times_df)
            /\ \A a \in Range(out.rows) \cup Range(want) :
                  Count(out.rows, a) = Count(want, a)
            /\ \A i, j \in 1..Len(out.rows) :
                  i < j => out.rows[i].start_time_usec <= out.rows[j].start_time_usec
            /\ Range(out.columns) = {"layer", "annotator", "description", "type",
                                     "start_time_usec", "end_time_usec"}
            /\ Len(out.columns) = 6
            /\ seizure_times_df = <<>> => out.rows = <<>>

C7_Witness ==
    /\ pc = "normalize_done"
    /\ Len(seizure_times_df) = 3
    /\ seizure_times_df[1].start = Rat(3, 2)
    /\ seizure_times_df[2].start = Rat(-1, 1)
    /\ seizure_times_df[3].start = Rat(0, 1)
    /\ seizure_times_manual.rows[1].start_time_usec = -1000000
    /\ seizure_times_manual.rows[2].start_time_usec = 0
    /\ seizure_times_manual.rows[3].start_time_usec = 1500000

\* the rows of seq whose start_time_usec is t, in their order
WithStart(seq, t) ==
    LET Test(r) == r.start_time_usec = t
    IN  SelectSeq(seq, Test)

\* C8: the sort of the Normalizer is stable: the annotations of events with
\* equal start_time_usec appear in the output in the order of their events
\* in the input.
C8_StableSort ==
    pc = "normalize_done" =>
        LET out == seizure_times_manual.rows
            want == SpecAnnotations(IsTruncOf, seizure_times_df)
        IN  \A r \in Range(out) :
               WithStart(out, r.start_time_usec) = WithStart(want, r.start_time_usec)

\* C9: the i-th session visited (i = 0, 1, ...) is row i + 1 of the expanded
\* session table and uses positional index i + 2; the index changes only by
\* going from 0 to 2 at the first session or up by 1 at the next one; the
\* value stored is the one of the table's first row at that position.
C9_PositionalIndex ==
    /\ row >= 1 => idx = (row - 1) + 2
    /\ "actual_start_time" \in DOMAIN metadata_dict =>
          LET cell == start_times_df[1][(row - 1) + 2 + 1]
          IN  metadata_dict["actual_start_time"] = (IF cell = NaN THEN None ELSE cell)
    /\ \A i \in 1..Len(calls) :
          calls[i].session >= 1 =>
             /\ calls[i].session <= Len(ieeg_data_df)
             /\ \A j \in 1..i : calls[j].session <= calls[i].session

C9_Witness ==
    /\ row = 2
    /\ idx = 3
    /\ pc = "save_validated_metadata"
    /\ Len(start_times_df) = 2
    /\ start_times_df[1][4] = T1
    /\ start_times_df[2][4] = NaN
    /\ start_times_df[1][3] = NaN
    /\ metadata_dict["actual_start_time"] = T1

\* position of a call in the order of steps of one invocation
Rank(f) ==
    CASE f = "get_redcap_data" -> 1
      [] f = "expand_ieeg_days_rows" -> 2
      [] f = "get_actual_start_times" -> 3
      [] f = "get_seizure_times" -> 4
      [] f = "process_seizure_annotations" -> 5
      [] f = "save_metadata" -> 6
      [] f = "concat" -> 7
      [] f = "_ieeg_clips" -> 8
      [] f = "timestamp_clips" -> 9
      [] f = "save_validated_metadata" -> 10

Key(c) == c.session * 10 + Rank(c.fn)

\* C10: within one process_subject_data invocation the five pre-loop steps
\* run at most once each, in order, and all before the first session; each
\* session begun has exactly one base-metadata fetch; the steps of a session
\* run in the order fetch, merge, derive clips, optional localization, Writer
\* (at most one Writer call, exactly one once the session is finished without
\* raising), and session j + 1 begins only after session j was written.
C10_StepOrder ==
    /\ \A i \in 1..Len(calls) :
          /\ (calls[i].session = 0) <=> (Rank(calls[i].fn) <= 5)
          /\ i > 1 => Key(calls[i - 1]) < Key(calls[i])
          /\ (Rank(calls[i].fn) # 1 /\ Rank(calls[i].fn) # 6 /\ Rank(calls[i].fn) # 10)
                => Rank(calls[i - 1].fn) = Rank(calls[i].fn) - 1
          /\ Rank(calls[i].fn) = 10 => Rank(calls[i - 1].fn) \in {8, 9}
          /\ Rank(calls[i].fn) = 6 =>
                /\ i > 1
                /\ Key(calls[i - 1]) = (IF calls[i].session = 1
                                        THEN 5
                                        ELSE (calls[i].session - 1) * 10 + 10)
    /\ \A j \in 1..row :
          (j < row \/ pc # "save_metadata") => Count(calls, Call("save_metadata", j)) = 1
    /\ row >= 1 => \A f \in {"get_redcap_data", "expand_ieeg_days_rows",
                             "get_actual_start_times", "get_seizure_times",
                             "process_seizure_annotations"} :
                      Count(calls, Call(f, 0)) = 1
    /\ lastWrite # None => Count(calls, Call("save_validated_metadata", row)) = 1
    /\ (pc = "main" /\ subject \notin raised /\ subject >= 1) =>
          \A j \in 1..Len(ieeg_data_df) :
              Count(calls, Call("save_validated_metadata", j)) = 1

C10_Witness ==
    /\ pc = "for"
    /\ row = 2
    /\ lastWrite # None
    /\ Len(calls) = 5 + 5 + 5
    /\ Called("timestamp_clips", 1)
    /\ Called("timestamp_clips", 2)

====
